---------------------------- MODULE Spec2Model ----------------------------
(***************************************************************************)
(* Model of src/src/ast.ts: syntax-tree walks, the position locator, the   *)
(* selector matcher (matchSingleNode / matchMultipleNodes), the directional *)
(* search and the selection projector.                                      *)
(*                                                                          *)
(* A tree is an arena: a sequence of TreeNode records addressed by index,   *)
(* numbered in document (pre-order) order; node 1 is the root and parent 0  *)
(* is the null parent.  A selector chain (Selector linked through .child)   *)
(* is the sequence of its steps: Tail(sel) is sel.child, <<>> is null.      *)
(* A nullable number (index, slice bound) is <<>> for null and <<n>> for n. *)
(***************************************************************************)
EXTENDS Integers, Sequences, FiniteSets, TLC

VARIABLES
    tree,        \* root: the syntax tree handed in by the parser
    position,    \* position: vscode.Position argument
    selector,    \* selector: dsl.Selector argument
    condition,   \* condition: UnNormalizedCondition argument
    nodeArray,   \* nodes: TreeNode[] argument of selectionFromNodeArray
    fn,          \* the function that ran last ("none" before any call)
    argNode,     \* node argument of the last call (0 when it takes none)
    direction,   \* direction argument of searchFromPosition
    reverse,     \* reverse argument of the selection functions
    matches,     \* TreeNode[] returned by the matcher / the search
    located,     \* node returned by findNodeAtPosition (0 is null)
    selection,   \* vscode.Selection returned by the selection functions
    threw        \* TRUE when the last call ended in `throw new Error`

vars == <<tree, position, selector, condition, nodeArray, fn, argNode,
          direction, reverse, matches, located, selection, threw>>

(***************************************************************************)
(* Bounds of the model.                                                    *)
(***************************************************************************)
MaxNodes == 4      \* nodes of a tree
MaxCol == 1        \* columns 0..MaxCol of a position
MaxSteps == 3      \* steps of a chain of plain selector steps
MaxIdx == 1        \* selector indices range over -MaxIdx..MaxIdx
MaxSel == 2        \* length of the node list handed to selectionFromNodeArray
MaxSpanNodes == 3  \* nodes of a tree whose spans are drawn freely

Rows == {0, 1}
Types == {"a", "b"}
NoNode == 0        \* null / undefined TreeNode
NoName == ""       \* Selector.name of a wildcard step (null)

(***************************************************************************)
(* vscode.Position and its comparisons (row first, then column).           *)
(***************************************************************************)
Pos(r, c) == [row |-> r, col |-> c]

Positions == {Pos(r, c) : r \in Rows, c \in 0..MaxCol}

IsBefore(p, q) == p.row < q.row \/ (p.row = q.row /\ p.col < q.col)

IsAfter(p, q) == IsBefore(q, p)

IsBeforeOrEqual(p, q) == IsBefore(p, q) \/ p = q

IsAfterOrEqual(p, q) == IsAfter(p, q) \/ p = q

vscodePositionFromNodePosition(nodePosition) ==
    Pos(nodePosition.row, nodePosition.col)

(***************************************************************************)
(* TreeNode: type, parent, startPosition, endPosition; children derived    *)
(* from the parent links, in document order.                               *)
(***************************************************************************)
TreeNode(ty, par, s, e) ==
    [type |-> ty, parent |-> par, startPosition |-> s, endPosition |-> e]

Children(t, n) ==
    SelectSeq([i \in 1..Len(t) |-> i], LAMBDA i : t[i].parent = n)

RECURSIVE IsAncestorOrSelf(_, _, _)
IsAncestorOrSelf(t, a, d) ==
    IF d = NoNode THEN FALSE
    ELSE IF a = d THEN TRUE
    ELSE IsAncestorOrSelf(t, a, t[d].parent)

IsDescendant(t, d, a) == d # a /\ IsAncestorOrSelf(t, a, d)

Last(s) == s[Len(s)]

RECURSIVE Concat(_)
Concat(ss) == IF ss = <<>> THEN <<>> ELSE Head(ss) \o Concat(Tail(ss))

Range(s) == {s[i] : i \in 1..Len(s)}

(***************************************************************************)
(* The walks.                                                              *)
(***************************************************************************)
RECURSIVE walk(_, _)
walk(t, node) ==
    <<node>> \o
    Concat([i \in 1..Len(Children(t, node)) |-> walk(t, Children(t, node)[i])])

RECURSIVE walkChildrenFirst(_, _)
walkChildrenFirst(t, node) ==
    Concat([i \in 1..Len(Children(t, node)) |->
               walkChildrenFirst(t, Children(t, node)[i])])
    \o <<node>>

RECURSIVE walkParents(_, _)
walkParents(t, node) ==
    IF t[node].parent = NoNode THEN <<>>
    ELSE <<t[node].parent>> \o walkParents(t, t[node].parent)


(***************************************************************************)
(* Position locator.                                                       *)
(***************************************************************************)
doesNodeContainPosition(t, node, p) ==
    LET nodeStartPosition == vscodePositionFromNodePosition(t[node].startPosition)
        nodeEndPosition == vscodePositionFromNodePosition(t[node].endPosition)
    IN  IsAfterOrEqual(p, nodeStartPosition) /\ IsBeforeOrEqual(p, nodeEndPosition)

RECURSIVE FirstContaining(_, _, _)
FirstContaining(t, order, p) ==
    IF order = <<>> THEN NoNode
    ELSE IF doesNodeContainPosition(t, Head(order), p) THEN Head(order)
    ELSE FirstContaining(t, Tail(order), p)

findNodeAtPositionPreOrder(p, t) == FirstContaining(t, walk(t, 1), p)

findNodeAtPosition(p, t) == FirstContaining(t, walkChildrenFirst(t, 1), p)

(***************************************************************************)
(* Selector steps.  dsl.isMultiple and util.sliceArray are not part of the *)
(* sources at hand; they follow the written description of the selector    *)
(* language: a step is "multiple" when it carries a bracket ([], [i] or    *)
(* [a:b:c]) and slices have Python semantics.                              *)
(***************************************************************************)
Step(name, wild, opt, mult, idx, sl) ==
    [name |-> name, isWildcard |-> wild, isOptional |-> opt,
     isMultiple |-> mult, index |-> idx, slice |-> sl]

Slice(start, stop, step) == [start |-> start, stop |-> stop, step |-> step]

isMultiple(sel) == Head(sel).isMultiple

Clamp(x, lo, hi) == IF x < lo THEN lo ELSE IF x > hi THEN hi ELSE x

RECURSIVE TakeEvery(_, _, _, _)
TakeEvery(arr, i, stop, step) ==
    IF (step > 0 /\ i >= stop) \/ (step < 0 /\ i <= stop) THEN <<>>
    ELSE <<arr[i + 1]>> \o TakeEvery(arr, i + step, stop, step)

sliceArray(arr, start, stop, step) ==
    LET n == Len(arr)
        st == IF step = <<>> THEN 1 ELSE step[1]
        norm(x) == IF x < 0 THEN x + n ELSE x
        lo == IF st > 0 THEN 0 ELSE -1
        hi == IF st > 0 THEN n ELSE n - 1
        from == IF start = <<>> THEN (IF st > 0 THEN 0 ELSE n - 1)
                ELSE Clamp(norm(start[1]), lo, hi)
        to == IF stop = <<>> THEN (IF st > 0 THEN n ELSE -1)
              ELSE Clamp(norm(stop[1]), lo, hi)
    IN  TakeEvery(arr, from, to, st)

(***************************************************************************)
(* Tree matcher.                                                           *)
(***************************************************************************)
RECURSIVE matchSingleNode(_, _, _)

\* selector.isWildcard || selector.name === node.type
IsMatch(t, node, step) == step.isWildcard \/ step.name = t[node].type

\* the scan of the direct children: the first non-empty child result wins
RECURSIVE FirstChildMatch(_, _, _)
FirstChildMatchNoRetry(t, kids, childSelector) ==
    IF kids = <<>> THEN <<>>
    ELSE matchSingleNode(t, Head(kids), childSelector)

FirstChildMatch(t, kids, childSelector) ==
    IF kids = <<>> THEN <<>>
    ELSE LET childResult == matchSingleNode(t, Head(kids), childSelector)
         IN  IF Len(childResult) > 0 THEN childResult
             ELSE FirstChildMatch(t, Tail(kids), childSelector)

\* the gathering loop of matchMultipleNodes
GatherFirstOnly(t, parent, childSelector) ==
    FirstChildMatch(t, Children(t, parent), childSelector)

Gather(t, parent, childSelector) ==
    Concat([i \in 1..Len(Children(t, parent)) |->
               matchSingleNode(t, Children(t, parent)[i], childSelector)])

\* `if (childSelector.index)`: null and 0 are both falsy
IndexIsSet(index) == index # <<>> /\ index[1] # 0

\* childSelector.index < 0 ? matches.length - 1 + childSelector.index : childSelector.index
ResolveIndex(len, index) == IF index < 0 THEN len - 1 + index ELSE index

\* matches[index]: undefined outside 0..length-1
ElementAt(arr, i) == IF 0 <= i /\ i < Len(arr) THEN arr[i + 1] ELSE NoNode

matchMultipleNodes(t, parent, parentSelector, childSelector) ==
    LET child == Head(childSelector)
        gathered == Gather(t, parent, childSelector)
        indexed == IF IndexIsSet(child.index)
                   THEN <<ElementAt(gathered,
                                    ResolveIndex(Len(gathered), child.index[1]))>>
                   ELSE gathered
    IN  IF child.slice # <<>>
        THEN sliceArray(indexed, child.slice[1].start, child.slice[1].stop,
                        child.slice[1].step)
        ELSE indexed

\* `else if (selector.isOptional && !isLeaf) return matchSingleNode(node, childSelector)`
OptionalAsWildcard(t, node, childSelector) ==
    FirstChildMatch(t, Children(t, node), childSelector)

OptionalFallThrough(t, node, childSelector) ==
    matchSingleNode(t, node, childSelector)

matchSingleNode(t, node, sel) ==
    LET step == Head(sel)
        childSelector == Tail(sel)
        isLeaf == childSelector = <<>>
    IN  IF IsMatch(t, node, step)
        THEN IF isLeaf THEN <<node>>
             ELSE IF isMultiple(childSelector)
                  THEN matchMultipleNodes(t, node, sel, childSelector)
                  ELSE FirstChildMatch(t, Children(t, node), childSelector)
        ELSE IF step.isOptional /\ ~isLeaf
             THEN OptionalFallThrough(t, node, childSelector)
             ELSE <<>>

(***************************************************************************)
(* Conditions: a type name, null, an array (conjunction), or one of the    *)
(* two position closures built by searchFromPosition.                      *)
(***************************************************************************)
Cond(kind, ty, items, p) == [kind |-> kind, type |-> ty, items |-> items, pos |-> p]

NullCondition == Cond("null", NoName, <<>>, Pos(0, 0))

TypeCondition(ty) == Cond("string", ty, <<>>, Pos(0, 0))

ArrayCondition(items) == Cond("array", NoName, items, Pos(0, 0))

\* (node) => position.isBefore(vscodePositionFromNodePosition(node.startPosition))
BeforeStartCondition(p) == Cond("positionIsBeforeStart", NoName, <<>>, p)

\* (node) => position.isAfter(vscodePositionFromNodePosition(node.endPosition))
AfterEndCondition(p) == Cond("positionIsAfterEnd", NoName, <<>>, p)

RECURSIVE normalizeCondition(_, _, _)
normalizeCondition(c, t, node) ==
    CASE c.kind = "array" ->
            \A i \in 1..Len(c.items) : normalizeCondition(c.items[i], t, node)
      [] c.kind = "null" -> TRUE
      [] c.kind = "string" -> t[node].type = c.type
      [] c.kind = "positionIsBeforeStart" ->
            IsBefore(c.pos, vscodePositionFromNodePosition(t[node].startPosition))
      [] c.kind = "positionIsAfterEnd" ->
            IsAfter(c.pos, vscodePositionFromNodePosition(t[node].endPosition))

RECURSIVE FirstSatisfying(_, _, _)
FirstSatisfying(t, order, c) ==
    IF order = <<>> THEN NoNode
    ELSE IF normalizeCondition(c, t, Head(order)) THEN Head(order)
    ELSE FirstSatisfying(t, Tail(order), c)

search(t, c) == FirstSatisfying(t, walk(t, 1), c)

(***************************************************************************)
(* Directional search.                                                     *)
(***************************************************************************)
\* [node].concat(Array.from(walkParents(node))).slice(0, -1)
ToCheckWithRoot(t, node) == <<node>> \o walkParents(t, node)

ToCheck(t, node) ==
    LET chain == <<node>> \o walkParents(t, node)
    IN  SubSeq(chain, 1, Len(chain) - 1)

RECURSIVE HighestMatches(_, _, _, _)
HighestMatches(t, toCheck, sel, highestMatches) ==
    IF toCheck = <<>> THEN highestMatches
    ELSE LET found == matchSingleNode(t, Head(toCheck), sel)
         IN  HighestMatches(t, Tail(toCheck), sel,
                            IF Len(found) > 0 THEN found ELSE highestMatches)

searchFromPosition(p, t, dir, c, sel) ==
    LET node == findNodeAtPosition(p, t)
    IN  IF node = NoNode THEN <<>>
        ELSE IF dir = "up" THEN HighestMatches(t, ToCheck(t, node), sel, <<>>)
        ELSE <<>>

(***************************************************************************)
(* Selection projector.  A nullable position is <<>> or <<p>>.             *)
(***************************************************************************)
Selection(anchor, active) == [anchor |-> anchor, active |-> active]

selectionFromTreeNode(node, rev) ==
    LET startPosition == vscodePositionFromNodePosition(node.startPosition)
        endPosition == vscodePositionFromNodePosition(node.endPosition)
    IN  IF rev THEN Selection(<<endPosition>>, <<startPosition>>)
        ELSE Selection(<<startPosition>>, <<endPosition>>)

\* one iteration of the loop of selectionFromNodeArray
ExtendKeepFirst(sel, node, rev) ==
    IF sel.anchor = <<>> THEN selectionFromTreeNode(node, rev) ELSE sel

Extend(sel, node, rev) ==
    LET startPosition == vscodePositionFromNodePosition(node.startPosition)
        endPosition == vscodePositionFromNodePosition(node.endPosition)
        anchor == sel.anchor
        active == sel.active
    IN  IF rev
        THEN Selection(
                 IF anchor = <<>> \/ IsAfter(endPosition, anchor[1])
                 THEN <<endPosition>> ELSE anchor,
                 IF active = <<>> \/ IsBefore(startPosition, active[1])
                 THEN <<startPosition>> ELSE active)
        ELSE Selection(
                 IF anchor = <<>> \/ IsBefore(startPosition, anchor[1])
                 THEN <<startPosition>> ELSE anchor,
                 IF active = <<>> \/ IsAfter(endPosition, active[1])
                 THEN <<endPosition>> ELSE active)

RECURSIVE SelectionLoop(_, _, _)
SelectionLoop(nodes, rev, sel) ==
    IF nodes = <<>> THEN sel
    ELSE SelectionLoop(Tail(nodes), rev, Extend(sel, Head(nodes), rev))

\* anchor and active after the loop; both null exactly when the call throws
selectionFromNodeArray(nodes, rev) ==
    SelectionLoop(nodes, rev, Selection(<<>>, <<>>))


(***************************************************************************)
(* Inputs.  Trees are generated node by node in document order: a new node *)
(* hangs below a node of the rightmost path, lies inside its parent's span *)
(* and starts at or after the end of its previous sibling.                 *)
(***************************************************************************)
Span(s, e) == [start |-> s, end |-> e]

Spans == {sp \in [start : Positions, end : Positions] :
            IsBeforeOrEqual(sp.start, sp.end)}

Within(inner, outerStart, outerEnd) ==
    IsAfterOrEqual(inner.start, outerStart) /\ IsBeforeOrEqual(inner.end, outerEnd)

RECURSIVE TreesOfSize(_, _, _)
TreesOfSize(n, tys, spans) ==
    IF n = 1
    THEN {<<TreeNode(ty, NoNode, sp.start, sp.end)>> : ty \in tys, sp \in spans}
    ELSE UNION {
           {Append(t, TreeNode(x[1], x[2], x[3].start, x[3].end)) :
              x \in {y \in tys \X (1..(n - 1)) \X spans :
                       /\ IsAncestorOrSelf(t, y[2], n - 1)
                       /\ Within(y[3], t[y[2]].startPosition, t[y[2]].endPosition)
                       /\ LET sibs == Children(t, y[2])
                          IN  sibs # <<>> =>
                                IsAfterOrEqual(y[3].start, t[Last(sibs)].endPosition)}}
           : t \in TreesOfSize(n - 1, tys, spans)}

\* trees with every well-nested choice of spans (the locator reads no type)
SpanTrees == UNION {TreesOfSize(n, {"a"}, Spans) : n \in 1..MaxSpanNodes}

\* trees laid out on a line: node i spans offsets i .. (its last descendant)
LinePos(x) == Pos(x \div (MaxCol + 1), x % (MaxCol + 1))

LastDescendant(t, n) ==
    CHOOSE d \in 1..Len(t) :
        /\ IsAncestorOrSelf(t, n, d)
        /\ \A e \in 1..Len(t) : IsAncestorOrSelf(t, n, e) => e <= d

LineLayout(t) ==
    [i \in 1..Len(t) |->
        TreeNode(t[i].type, t[i].parent, LinePos(i), LinePos(LastDescendant(t, i)))]

LineTrees ==
    {LineLayout(t) :
        t \in UNION {TreesOfSize(n, Types, {Span(Pos(0, 0), Pos(0, 0))}) :
                        n \in 1..MaxNodes}}

LinePositions == {LinePos(x) : x \in 0..(MaxNodes + 1)}

\* selector steps
Names == {<<ty, FALSE>> : ty \in Types} \cup {<<NoName, TRUE>>}

NoBracket == [isMultiple |-> FALSE, index |-> <<>>, slice |-> <<>>]

GatherAll == [isMultiple |-> TRUE, index |-> <<>>, slice |-> <<>>]

IndexBrackets ==
    {[isMultiple |-> TRUE, index |-> <<i>>, slice |-> <<>>] : i \in (-MaxIdx)..MaxIdx}

SliceBrackets ==
    {[isMultiple |-> TRUE, index |-> <<>>, slice |-> <<sl>>] :
        sl \in {Slice(<<>>, <<>>, <<>>), Slice(<<>>, <<>>, <<-1>>)}}

StepsWith(opts, brackets) ==
    {Step(nm[1], nm[2], opt, br.isMultiple, br.index, br.slice) :
        nm \in Names, opt \in opts, br \in brackets}

PlainSteps == StepsWith({FALSE}, {NoBracket})

HeadSteps == StepsWith(BOOLEAN, {NoBracket})

RECURSIVE ChainsOfLength(_, _)
ChainsOfLength(n, steps) ==
    IF n = 0 THEN {<<>>}
    ELSE {<<st>> \o c : st \in steps, c \in ChainsOfLength(n - 1, steps)}

\* name or wildcard steps only, up to MaxSteps of them
PlainChains == UNION {ChainsOfLength(n, PlainSteps) : n \in 1..MaxSteps}

\* a head, then a step with any modifier, then at most one plain step
ModifiedChains ==
    {<<h>> : h \in HeadSteps} \cup
    {<<h, m>> \o c :
        h \in HeadSteps,
        m \in StepsWith(BOOLEAN,
                        {NoBracket, GatherAll} \cup IndexBrackets \cup SliceBrackets),
        c \in ChainsOfLength(0, PlainSteps) \cup ChainsOfLength(1, PlainSteps)}

MatchSelectors == PlainChains \cup ModifiedChains

\* the selectors handed to the upward search: one or two steps, no slice
SearchSelectors ==
    {<<h>> : h \in HeadSteps} \cup
    {<<h, m>> : h \in HeadSteps,
                m \in StepsWith({FALSE}, {NoBracket, GatherAll} \cup IndexBrackets)}

LeafSelectors == {<<st>> : st \in PlainSteps}

Conditions == {NullCondition} \cup {TypeCondition(ty) : ty \in Types}

SearchArguments ==
    ({"up"} \X LinePositions \X {NullCondition} \X SearchSelectors) \cup
    ({"down", "before", "after"} \X LinePositions \X Conditions \X LeafSelectors)

NodeArrays ==
    UNION {[1..n -> {TreeNode("a", NoNode, sp.start, sp.end) : sp \in Spans}] :
              n \in 0..MaxSel}

NoSelection == Selection(<<>>, <<>>)

(***************************************************************************)
(* State machine: the tree is the state the calls read; every action is    *)
(* one call made from the idle state (fn = "none"), recording its          *)
(* arguments and what it returned; Return goes back to the idle state.     *)
(***************************************************************************)
InitCall ==
    /\ position = Pos(0, 0)
    /\ selector = <<>>
    /\ condition = NullCondition
    /\ nodeArray = <<>>
    /\ fn = "none"
    /\ argNode = NoNode
    /\ direction = "none"
    /\ reverse = FALSE
    /\ matches = <<>>
    /\ located = NoNode
    /\ selection = NoSelection
    /\ threw = FALSE

\* matchSingleNode(root, sel)
MatchSingleNode ==
    /\ fn = "none"
    /\ \E sel \in MatchSelectors :
        /\ fn' = "matchSingleNode"
        /\ argNode' = 1
        /\ selector' = sel
        /\ matches' = matchSingleNode(tree, 1, sel)
        /\ UNCHANGED <<tree, position, condition, nodeArray, direction, reverse,
                       located, selection, threw>>

\* matchMultipleNodes(root, sel, sel.child), called as matchSingleNode calls it
MatchMultipleNodes ==
    /\ fn = "none"
    /\ \E sel \in MatchSelectors :
        /\ Len(sel) > 1
        /\ isMultiple(Tail(sel))
        /\ fn' = "matchMultipleNodes"
        /\ argNode' = 1
        /\ selector' = sel
        /\ matches' = matchMultipleNodes(tree, 1, sel, Tail(sel))
        /\ UNCHANGED <<tree, position, condition, nodeArray, direction, reverse,
                       located, selection, threw>>

\* searchFromPosition(position, root, direction, condition, selector)
SearchFromPosition ==
    /\ fn = "none"
    /\ \E a \in SearchArguments :
        /\ fn' = "searchFromPosition"
        /\ direction' = a[1]
        /\ position' = a[2]
        /\ condition' = a[3]
        /\ selector' = a[4]
        /\ located' = findNodeAtPosition(a[2], tree)
        /\ matches' = searchFromPosition(a[2], tree, a[1], a[3], a[4])
        /\ UNCHANGED <<tree, nodeArray, argNode, reverse, selection, threw>>

\* findNodeAtPosition(position, root)
FindNodeAtPosition ==
    /\ fn = "none"
    /\ \E p \in Positions :
        /\ fn' = "findNodeAtPosition"
        /\ position' = p
        /\ located' = findNodeAtPosition(p, tree)
        /\ UNCHANGED <<tree, selector, condition, nodeArray, argNode, direction,
                       reverse, matches, selection, threw>>

\* search(root, condition)
Search ==
    /\ fn = "none"
    /\ \E c \in Conditions :
        /\ fn' = "search"
        /\ condition' = c
        /\ located' = search(tree, c)
        /\ UNCHANGED <<tree, position, selector, nodeArray, argNode, direction,
                       reverse, matches, selection, threw>>

\* selectionFromTreeNode(node, reverse)
SelectionFromTreeNode ==
    /\ fn = "none"
    /\ \E n \in 1..Len(tree), rev \in BOOLEAN :
        /\ fn' = "selectionFromTreeNode"
        /\ argNode' = n
        /\ reverse' = rev
        /\ selection' = selectionFromTreeNode(tree[n], rev)
        /\ threw' = FALSE
        /\ UNCHANGED <<tree, position, selector, condition, nodeArray, direction,
                       matches, located>>

\* selectionFromNodeArray(nodes, reverse)
SelectionFromNodeArray ==
    /\ fn = "none"
    /\ \E nodes \in NodeArrays, rev \in BOOLEAN :
        LET sel == selectionFromNodeArray(nodes, rev)
            fails == sel.anchor = <<>> \/ sel.active = <<>>
        IN  /\ fn' = "selectionFromNodeArray"
            /\ nodeArray' = nodes
            /\ reverse' = rev
            /\ threw' = fails
            /\ selection' = IF fails THEN NoSelection ELSE sel
            /\ UNCHANGED <<tree, position, selector, condition, argNode, direction,
                           matches, located>>

\* the call has returned and its result has been consumed
Return ==
    /\ fn # "none"
    /\ fn' = "none"
    /\ position' = Pos(0, 0)
    /\ selector' = <<>>
    /\ condition' = NullCondition
    /\ nodeArray' = <<>>
    /\ argNode' = NoNode
    /\ direction' = "none"
    /\ reverse' = FALSE
    /\ matches' = <<>>
    /\ located' = NoNode
    /\ selection' = NoSelection
    /\ threw' = FALSE
    /\ UNCHANGED tree

\* the matcher on every tree
InitMatch == tree \in LineTrees /\ InitCall

NextMatch == MatchSingleNode \/ MatchMultipleNodes \/ Return

SpecMatch == InitMatch /\ [][NextMatch]_vars

\* the directional search on every tree
InitSearch == tree \in LineTrees /\ InitCall

NextSearch == SearchFromPosition \/ Search \/ Return

SpecSearch == InitSearch /\ [][NextSearch]_vars

\* the locator on trees with freely drawn spans
InitLocate == tree \in SpanTrees /\ InitCall

NextLocate == FindNodeAtPosition \/ SelectionFromTreeNode \/ Return

SpecLocate == InitLocate /\ [][NextLocate]_vars

\* the selection projector on freely drawn node lists
InitSelect == tree = <<TreeNode("a", NoNode, Pos(0, 0), Pos(0, 0))>> /\ InitCall

NextSelect == SelectionFromNodeArray \/ Return

SpecSelect == InitSelect /\ [][NextSelect]_vars


(***************************************************************************)
(* Properties.                                                             *)
(***************************************************************************)
Nodes == 1..Len(tree)

Min(S) == CHOOSE x \in S : \A y \in S : x <= y

Reverse(s) == [i \in 1..Len(s) |-> s[Len(s) + 1 - i]]

\* the nodes from the root down to e
RootPath(t, e) == Reverse(<<e>> \o walkParents(t, e))

\* p <= q in row-then-column order
LexLE(p, q) == p.row < q.row \/ (p.row = q.row /\ p.col <= q.col)

StepAccepts(st, n) == st.isWildcard \/ st.name = tree[n].type

\* the concatenation, child by child, of the child selector's results
RECURSIVE ChildResults(_, _)
ChildResults(kids, childSelector) ==
    IF kids = <<>> THEN <<>>
    ELSE matchSingleNode(tree, Head(kids), childSelector)
         \o ChildResults(Tail(kids), childSelector)

ChildStep == Head(Tail(selector))

GatheredList == ChildResults(Children(tree, argNode), Tail(selector))

\* the chain [located node, its parent, ..., root]
SearchChain == <<located>> \o walkParents(tree, located)

MatchingOn(chainNodes) ==
    {n \in chainNodes : Len(matchSingleNode(tree, n, selector)) > 0}

\* the member of S closest to the root (S lies on one root path)
Topmost(S) == CHOOSE n \in S : \A m \in S : IsAncestorOrSelf(tree, n, m)

UpSearchDone ==
    fn = "searchFromPosition" /\ direction = "up" /\ located # NoNode

\* C1 as stated: an upward search returns the match of the topmost matching
\* node of the chain [located node, ..., root], the root included, and is
\* non-empty whenever some chain node matches.
C1_UpReturnsTopmostOfWholeChain ==
    UpSearchDone =>
        LET matching == MatchingOn(Range(SearchChain))
        IN  matching # {} =>
              /\ matches = matchSingleNode(tree, Topmost(matching), selector)
              /\ Len(matches) > 0

\* C1 amended: the chain that is checked leaves the root out; the result is
\* the match of the topmost matching node among the located node and its
\* ancestors below the root, and it is empty when none of those matches.
C1_UpReturnsTopmostBelowRoot ==
    UpSearchDone =>
        LET matching == MatchingOn({n \in Range(SearchChain) :
                                      tree[n].parent # NoNode})
        IN  IF matching = {} THEN matches = <<>>
            ELSE /\ matches = matchSingleNode(tree, Topmost(matching), selector)
                 /\ Len(matches) > 0

\* C1 witness: two chain nodes below the root match and the upper one's
\* match, which differs from the lower one's, is what the search returned.
C1_Witness ==
    /\ UpSearchDone
    /\ \E lo, hi \in MatchingOn({n \in Range(SearchChain) : tree[n].parent # NoNode}) :
          /\ IsDescendant(tree, lo, hi)
          /\ matchSingleNode(tree, lo, selector) # matchSingleNode(tree, hi, selector)
          /\ matches = matchSingleNode(tree, hi, selector)

\* C2: with the child selector's index set to an in-range i (0 included),
\* matchMultipleNodes returns exactly the i-th gathered node.
C2_InRangeIndexSelectsOne ==
    (/\ fn = "matchMultipleNodes"
     /\ ChildStep.index # <<>>
     /\ ChildStep.index[1] >= 0
     /\ ChildStep.index[1] < Len(GatheredList))
    => matches = <<GatheredList[ChildStep.index[1] + 1]>>

\* C3: on a gathered list of length k >= 1, index -1 selects the element
\* index k-1 names and index -k selects the element index 0 names.
C3_NegativeIndexCountsFromEnd ==
    (/\ fn = "matchMultipleNodes"
     /\ ChildStep.index # <<>>
     /\ Len(GatheredList) >= 1
     /\ ChildStep.index[1] \in {-1, -Len(GatheredList)})
    => matches = <<GatheredList[Len(GatheredList) + ChildStep.index[1] + 1]>>

\* C4: an upward search returns nodes of the tree only, never an empty slot,
\* and a chain node whose index is out of range does not count as a match:
\* the result is that of the topmost node whose match holds nodes only.
C4_OutOfRangeIndexIsNoMatch ==
    UpSearchDone =>
        LET sound == {n \in Range(SearchChain) :
                        /\ tree[n].parent # NoNode
                        /\ Len(matchSingleNode(tree, n, selector)) > 0
                        /\ NoNode \notin Range(matchSingleNode(tree, n, selector))}
        IN  /\ \A i \in 1..Len(matches) : matches[i] \in Nodes
            /\ matches = IF sound = {} THEN <<>>
                         ELSE matchSingleNode(tree, Topmost(sound), selector)

\* the nodes a "before" search is to return: they satisfy the condition and
\* the selector and start strictly before the position
StartsBefore ==
    {n \in Nodes :
        /\ normalizeCondition(condition, tree, n)
        /\ Len(matchSingleNode(tree, n, selector)) > 0
        /\ IsBefore(tree[n].startPosition, position)}

\* C5: a "before" search returns only nodes that satisfy the selector and
\* condition and start strictly before the position, and returns at least
\* one when such a node exists.
C5_BeforeReturnsPrecedingNodes ==
    (fn = "searchFromPosition" /\ direction = "before" /\ located # NoNode) =>
        /\ StartsBefore # {} => Len(matches) > 0
        /\ \A i \in 1..Len(matches) : matches[i] \in StartsBefore

Containing ==
    {n \in Nodes : LexLE(tree[n].startPosition, position)
                   /\ LexLE(position, tree[n].endPosition)}

PostOrderIndex(n) ==
    CHOOSE i \in 1..Len(tree) : walkChildrenFirst(tree, 1)[i] = n

\* C6: findNodeAtPosition returns the first node in post-order whose span
\* contains the position (both ends inclusive); that node has no descendant
\* containing the position; the result is null exactly when no node does.
C6_LocatesFirstPostOrderContaining ==
    fn = "findNodeAtPosition" =>
        /\ located = NoNode <=> Containing = {}
        /\ located # NoNode =>
             /\ located \in Containing
             /\ \A d \in Containing : ~IsDescendant(tree, d, located)
             /\ \A n \in Containing : PostOrderIndex(located) <= PostOrderIndex(n)

\* C6 witness: the located node is nested (its parent contains the position
\* too) and a later node outside its root path contains the position as well.
C6_Witness ==
    /\ fn = "findNodeAtPosition"
    /\ located # NoNode
    /\ tree[located].parent \in Containing
    /\ \E n \in Containing : n > located /\ ~IsAncestorOrSelf(tree, n, located)

GatherAllCall ==
    /\ fn = "matchMultipleNodes"
    /\ ChildStep.index = <<>>
    /\ ChildStep.slice = <<>>

\* C7: with a gather-all child selector (no index, no slice)
\* matchMultipleNodes returns the concatenation, in child order, of the
\* child selector's result on every direct child; for a leaf child selector
\* these are the children the step accepts, in document order.
C7_GatherAllConcatenatesInOrder ==
    GatherAllCall =>
        /\ matches = GatheredList
        /\ Len(Tail(selector)) = 1 =>
             matches = SelectSeq(Children(tree, argNode),
                                 LAMBDA c : StepAccepts(ChildStep, c))

\* C7 witness: at least two children contribute and one child does not.
C7_Witness ==
    /\ GatherAllCall
    /\ Len(Tail(selector)) = 1
    /\ Len(matches) >= 2
    /\ \E c \in Range(Children(tree, argNode)) : ~StepAccepts(ChildStep, c)

OptionalStepFails ==
    /\ fn = "matchSingleNode"
    /\ Head(selector).isOptional
    /\ ~Head(selector).isWildcard
    /\ Head(selector).name # tree[argNode].type

\* C8: an optional step that does not accept the node is transparent: the
\* result is that of the child selector on the same node; an optional leaf
\* step that does not accept the node yields the empty sequence.
C8_OptionalStepIsTransparent ==
    OptionalStepFails =>
        IF Len(selector) > 1
        THEN matches = matchSingleNode(tree, argNode, Tail(selector))
        ELSE matches = <<>>

\* C8 witness: the optional step fails on the node and the child selector
\* finds something from that same node.
C8_Witness ==
    /\ OptionalStepFails
    /\ Len(selector) > 1
    /\ Len(matches) > 0

SelectionStarts == {nodeArray[i].startPosition : i \in 1..Len(nodeArray)}

SelectionEnds == {nodeArray[i].endPosition : i \in 1..Len(nodeArray)}

MinStart == CHOOSE p \in SelectionStarts : \A q \in SelectionStarts : LexLE(p, q)

MaxEnd == CHOOSE p \in SelectionEnds : \A q \in SelectionEnds : LexLE(q, p)

\* C9: selectionFromNodeArray throws on the empty list; otherwise it
\* returns the bounding range (anchor = minimal start and active = maximal
\* end, swapped when reverse), whatever the order of the nodes.
C9_SelectionIsBoundingRange ==
    fn = "selectionFromNodeArray" =>
        IF nodeArray = <<>> THEN threw
        ELSE /\ ~threw
             /\ selection = IF reverse THEN Selection(<<MaxEnd>>, <<MinStart>>)
                            ELSE Selection(<<MinStart>>, <<MaxEnd>>)
             /\ \A perm \in Permutations(1..Len(nodeArray)) :
                   selectionFromNodeArray(
                       [i \in 1..Len(nodeArray) |-> nodeArray[perm[i]]], reverse)
                   = selection

\* C9 witness: several nodes, and neither end of the range is the first
\* node's.
C9_Witness ==
    /\ fn = "selectionFromNodeArray"
    /\ Len(nodeArray) >= 2
    /\ ~threw
    /\ ~reverse
    /\ selection.anchor # <<nodeArray[1].startPosition>>
    /\ selection.active # <<nodeArray[1].endPosition>>

IsPlainChain(sel) ==
    \A i \in 1..Len(sel) :
        ~sel[i].isOptional /\ ~sel[i].isMultiple
        /\ sel[i].index = <<>> /\ sel[i].slice = <<>>

\* the ends of the downward chains from the root whose nodes the steps of
\* the selector accept one after the other
ChainEnds ==
    {e \in Nodes :
        /\ Len(RootPath(tree, e)) = Len(selector)
        /\ \A j \in 1..Len(selector) : StepAccepts(selector[j], RootPath(tree, e)[j])}

\* C10: on a chain of plain steps matchSingleNode returns at most one node;
\* it is non-empty exactly when a downward chain of nodes matches the steps,
\* and the node returned ends the first such chain in depth-first,
\* left-to-right order.
C10_PlainChainFindsFirstPath ==
    (fn = "matchSingleNode" /\ IsPlainChain(selector)) =>
        /\ Len(matches) <= 1
        /\ matches = IF ChainEnds = {} THEN <<>> ELSE <<Min(ChainEnds)>>

\* C10 witness: an earlier subtree matches a proper prefix of the steps and
\* yields nothing, and the match is found in a later sibling's subtree.
C10_Witness ==
    /\ fn = "matchSingleNode"
    /\ IsPlainChain(selector)
    /\ ChainEnds # {}
    /\ matches = <<Min(ChainEnds)>>
    /\ \E x \in Nodes :
          /\ x < Min(ChainEnds)
          /\ ~IsAncestorOrSelf(tree, x, Min(ChainEnds))
          /\ Len(RootPath(tree, x)) >= 2
          /\ Len(RootPath(tree, x)) < Len(selector)
          /\ \A j \in 1..Len(RootPath(tree, x)) :
                StepAccepts(selector[j], RootPath(tree, x)[j])
          /\ matchSingleNode(tree, x,
                 SubSeq(selector, Len(RootPath(tree, x)), Len(selector))) = <<>>

=============================================================================
